---- MODULE Spec2Model ----
(***************************************************************************)
(* Model of the voxel garden: the two voxel synthesizers of                *)
(* src/components/VoxelUtils.tsx (generateVoxels, generateCharacterVoxels) *)
(* and the avatar locomotion / collision tick of src/index.tsx             *)
(* (Character.useFrame, GameScene).                                        *)
(*                                                                         *)
(* Math.random() is modelled as a small linear congruential generator: its *)
(* state is the variable rng, one draw returns Rand(rng) / Levels and      *)
(* advances the state.  Every initial state of the generator is explored.  *)
(***************************************************************************)
EXTENDS Integers, Sequences, FiniteSets, TLC

VARIABLES
  rng,      \* state of the process-wide random generator (Math.random)
  data,     \* the plant descriptor being synthesized: [type, colors]
  phase,    \* "idle" | "plant" | "char": which synthesizer call is running
  calls,    \* the add(...) calls the running recipe issues, in program order
  pc,       \* index in calls of the next add(...) to execute
  voxels,   \* the local array `voxels` of the running call
  layers,   \* per entry of voxels: the recipe layer whose add emitted it
  nCalls,   \* number of synthesizer calls started so far
  lastPlant,\* value returned by the latest completed generateVoxels call
  lastChar, \* value returned by the latest completed generateCharacterVoxels
  scene,    \* the scene of the run: its catalog, pointer targets and frame rate
  nTargets, \* number of times targetPos was set
  pos,      \* Character: position.current
  target,   \* GameScene: targetPos
  prevTarget, \* the value targetPos had before it was last set
  mode,     \* branch taken by the latest tick: "IDLE" | "SEEKING"
  bob,      \* Character: visualRef.current.position.y
  retargeted, \* whether targetPos was set since the latest tick
  last,     \* the latest tick: where it started and what it did
  hoveredId,   \* GameScene: hoveredId, the id of the plant under the pointer
  activePlant, \* App: the id of the plant whose description is shown
  pointerOn,   \* the plants the pointer is over (by place in the catalog)
  dataRef,  \* Plant: the identity of the object passed as the data prop
  memoDeps, \* Plant: the dependency [data] stored by useMemo with its value
  charDeps, \* Character: the dependencies [] stored by useMemo with its value
  cause     \* what caused the latest render

vvars == <<rng, data, phase, calls, pc, voxels, layers, nCalls, lastPlant, lastChar>>
lvars == <<scene, nTargets, pos, target, prevTarget, mode, bob, retargeted, last, hoveredId,
           activePlant, pointerOn>>
rvars == <<dataRef, memoDeps, charDeps, cause>>
vars == <<vvars, lvars, rvars>>

----------------------------------------------------------------------------
\* Bounds of the model

\* Number of distinct initial states of the random generator explored.
NumSeeds == 3
\* Number of synthesizer calls in one run.
MaxCalls == 3
\* Number of times the pointer sets a new target in one run.
MaxTargets == 2

----------------------------------------------------------------------------
\* The random source

\* Math.random() yields k / Levels for a level k in 0 .. Levels-1.
Levels == 8
\* Number of states of the generator.
RngMod == 64

NextRng(r) == (5 * r + 3) % RngMod
Rand(r) == r \div (RngMod \div Levels)

----------------------------------------------------------------------------
\* Colors and palettes

Undefined == "undefined"
\* JavaScript truthiness of an optional color string
Truthy(c) == c # Undefined /\ c # ""

PlantTypes == {"TALL_FLOWER", "BUSH_FLOWER", "TREE_SMALL", "BROAD_LEAF", "VINE", "ORCHID"}
Unrecognized == "UNRECOGNIZED"
Categories == PlantTypes \cup {Unrecognized}

\* Palettes of the garden catalog: with secondary, without, and primary = foliage
Palettes ==
  { [primary |-> "#FF6600", secondary |-> "#0000FF", foliage |-> "#006400"],
    [primary |-> "#FF8C00", secondary |-> Undefined, foliage |-> "#6B8E23"],
    [primary |-> "#004d00", secondary |-> Undefined, foliage |-> "#004d00"] }

BushTrunkColor == "#4a3c31"
TreeTrunkColor == "#5D4037"
FeatureStalkColor == "#2E8B57"
PotColor == "#8B4513"
StemColor == "#556B2F"
FallbackCenterColor == "#FFFF00"

----------------------------------------------------------------------------
\* Helpers

\* Math.round(num / den) for den > 0: floor(x + 1/2)
Round(num, den) == (2 * num + den) \div (2 * den)

Abs(n) == IF n < 0 THEN -n ELSE n

RECURSIVE Flat(_)
Flat(ss) == IF ss = <<>> THEN <<>> ELSE Head(ss) \o Flat(Tail(ss))

\* One add(x, y, z, color) call; layer is the recipe layer issuing it:
\* "S" structural, "M" mass, "O" ornament.
Call(x, y, z, color, layer) ==
  [x |-> x, y |-> y, z |-> z, color |-> color, layer |-> layer]

Voxel(c) == [x |-> c.x, y |-> c.y, z |-> c.z, color |-> c.color]

Occupied(vs, x, y, z) ==
  \E k \in 1..Len(vs) : vs[k].x = x /\ vs[k].y = y /\ vs[k].z = z

\* A faulty add: a write to an occupied cell recolors it (last writer wins).
addOverwrite(vs, c) ==
  IF Occupied(vs, c.x, c.y, c.z)
  THEN [k \in 1..Len(vs) |->
          IF vs[k].x = c.x /\ vs[k].y = c.y /\ vs[k].z = c.z THEN Voxel(c) ELSE vs[k]]
  ELSE Append(vs, Voxel(c))

\* A faulty add: no duplicate check at all.
addNoCheck(vs, c) == Append(vs, Voxel(c))

\* generateVoxels.add: push unless some entry already has the coordinate
add(vs, c) ==
  IF ~Occupied(vs, c.x, c.y, c.z) THEN Append(vs, Voxel(c)) ELSE vs

\* A faulty push: a write to a cell already written is dropped, as in add.
addCharFirstWins(vs, c) ==
  IF ~Occupied(vs, c.x, c.y, c.z) THEN Append(vs, Voxel(c)) ELSE vs

\* generateCharacterVoxels.add: unconditional push
addChar(vs, c) == Append(vs, Voxel(c))

----------------------------------------------------------------------------
\* TALL_FLOWER

\* A faulty crest: the accent cells take `secondary` whether or not it is set.
TallCrestUnguarded(ox, fy, oz, colors) ==
  << Call(ox + 1, fy + 1, oz, colors.secondary, "O"),
     Call(ox + 2, fy + 2, oz, colors.secondary, "O"),
     Call(ox, fy + 1, oz, colors.secondary, "O") >>

TallCrest(ox, fy, oz, colors) ==
  IF Truthy(colors.secondary)
  THEN << Call(ox + 1, fy + 1, oz, colors.secondary, "O"),
          Call(ox + 2, fy + 2, oz, colors.secondary, "O"),
          Call(ox, fy + 1, oz, colors.secondary, "O") >>
  ELSE << Call(ox + 1, fy + 1, oz, colors.primary, "O"),
          Call(ox + 2, fy + 2, oz, colors.primary, "O") >>

\* Number of iterations of for(y=2; y<height-4; y+=3)
BladeCount(height) == IF height - 4 > 2 THEN (height - 4 - 3) \div 3 + 1 ELSE 0

TallStalk(i, height, colors) ==
  LET ox == (i % 2) * 2 - 1
      oz == (i \div 2) * 2 - 1
      stalk == [k \in 1..height |-> Call(ox, k - 1, oz, colors.foliage, "S")]
      blades == Flat([k \in 1..BladeCount(height) |->
                   LET y == 2 + 3 * (k - 1) IN
                   << Call(ox + 1, y, oz, colors.foliage, "M"),
                      Call(ox + 2, y + 1, oz, colors.foliage, "M"),
                      Call(ox - 1, y + 1, oz, colors.foliage, "M") >>])
      head == IF i < 3
              THEN << Call(ox, height, oz, colors.primary, "O"),
                      Call(ox + 1, height, oz, colors.primary, "O"),
                      Call(ox + 2, height, oz, colors.primary, "O"),
                      Call(ox + 3, height + 1, oz, colors.primary, "O") >>
                   \o TallCrest(ox, height, oz, colors)
              ELSE <<>>
  IN  stalk \o blades \o head

\* height = 12 + Math.floor(Math.random() * 6)
StalkHeight(r) == 12 + (Rand(r) * 6) \div Levels

RECURSIVE TallCalls(_, _, _)
TallCalls(i, r, colors) ==
  IF i = 4 THEN [calls |-> <<>>, rng |-> r]
  ELSE LET rest == TallCalls(i + 1, NextRng(r), colors)
       IN  [calls |-> TallStalk(i, StalkHeight(r), colors) \o rest.calls,
            rng |-> rest.rng]

----------------------------------------------------------------------------
\* BUSH_FLOWER

\* twice the radius 3.5
Radius2 == 7
CenterY == 5

\* dist < radius + Math.random() * 0.5, with dist = sqrt(d2) and the draw
\* lvl / Levels:  sqrt(d2) < (Radius2 * Levels + lvl) / (2 * Levels)
InBush(d2, lvl) ==
  4 * Levels * Levels * d2 < (Radius2 * Levels + lvl) * (Radius2 * Levels + lvl)

\* Math.random() > 0.1
KeepCell(lvl) == 10 * lvl > Levels

\* for(let y=0; y<=9; y++): one draw for the surface noise, and for a cell
\* inside the noisy radius a second draw for the gaps
RECURSIVE BushColumn(_, _, _, _, _)
BushColumn(x, z, y, r, colors) ==
  IF y > 9 THEN [calls |-> <<>>, rng |-> r]
  ELSE LET d2 == x * x + z * z + (y - CenterY) * (y - CenterY)
           r1 == NextRng(r)
       IN  IF InBush(d2, Rand(r))
           THEN LET rest == BushColumn(x, z, y + 1, NextRng(r1), colors)
                IN  IF KeepCell(Rand(r1))
                    THEN [calls |-> <<Call(x, y, z, colors.foliage, "M")>> \o rest.calls,
                          rng |-> rest.rng]
                    ELSE rest
           ELSE BushColumn(x, z, y + 1, r1, colors)

\* for(let z=-4; z<=4; z++)
RECURSIVE BushRow(_, _, _, _)
BushRow(x, z, r, colors) ==
  IF z > 4 THEN [calls |-> <<>>, rng |-> r]
  ELSE LET col == BushColumn(x, z, 0, r, colors)
           rest == BushRow(x, z + 1, col.rng, colors)
       IN  [calls |-> col.calls \o rest.calls, rng |-> rest.rng]

\* for(let x=-4; x<=4; x++)
RECURSIVE BushMass(_, _, _)
BushMass(x, r, colors) ==
  IF x > 4 THEN [calls |-> <<>>, rng |-> r]
  ELSE LET row == BushRow(x, -4, r, colors)
           rest == BushMass(x + 1, row.rng, colors)
       IN  [calls |-> row.calls \o rest.calls, rng |-> rest.rng]

BushTrunk == [k \in 1..3 |-> Call(0, k - 1, 0, BushTrunkColor, "S")]

\* (fx, fy, fz) = ( round(radius sin(phi) cos(theta)),
\*                  round(radius cos(phi)) + centerY,
\*                  round(radius sin(phi) sin(theta)) )
\* with theta = 2 pi u, phi = acos(2 v - 1), tabulated for u = ku / 8 (row
\* ku + 1) and v = kv / 8 (column kv + 1).
SpherePoint ==
  << << <<0,2,0>>, <<2,2,0>>, <<3,3,0>>, <<3,4,0>>, <<4,5,0>>, <<3,6,0>>, <<3,7,0>>, <<2,8,0>> >>,
     << <<0,2,0>>, <<2,2,2>>, <<2,3,2>>, <<2,4,2>>, <<2,5,2>>, <<2,6,2>>, <<2,7,2>>, <<2,8,2>> >>,
     << <<0,2,0>>, <<0,2,2>>, <<0,3,3>>, <<0,4,3>>, <<0,5,4>>, <<0,6,3>>, <<0,7,3>>, <<0,8,2>> >>,
     << <<0,2,0>>, <<-2,2,2>>, <<-2,3,2>>, <<-2,4,2>>, <<-2,5,2>>, <<-2,6,2>>, <<-2,7,2>>, <<-2,8,2>> >>,
     << <<0,2,0>>, <<-2,2,0>>, <<-3,3,0>>, <<-3,4,0>>, <<-3,5,0>>, <<-3,6,0>>, <<-3,7,0>>, <<-2,8,0>> >>,
     << <<0,2,0>>, <<-2,2,-2>>, <<-2,3,-2>>, <<-2,4,-2>>, <<-2,5,-2>>, <<-2,6,-2>>, <<-2,7,-2>>, <<-2,8,-2>> >>,
     << <<0,2,0>>, <<0,2,-2>>, <<0,3,-3>>, <<0,4,-3>>, <<0,5,-3>>, <<0,6,-3>>, <<0,7,-3>>, <<0,8,-2>> >>,
     << <<0,2,0>>, <<2,2,-2>>, <<2,3,-2>>, <<2,4,-2>>, <<2,5,-2>>, <<2,6,-2>>, <<2,7,-2>>, <<2,8,-2>> >> >>

\* A faulty flower center: `secondary` with no fallback.
FlowerCenterColorNoFallback(colors) == colors.secondary

\* secondary || '#FFFF00'
FlowerCenterColor(colors) ==
  IF Truthy(colors.secondary) THEN colors.secondary ELSE FallbackCenterColor

\* A faulty flower: no test of the height, a motif at every sampled point.
BushFlowerUnguarded(fx, fy, fz, colors) ==
  << Call(fx, fy, fz, FlowerCenterColor(colors), "O"),
     Call(fx + 1, fy, fz, colors.primary, "O"),
     Call(fx - 1, fy, fz, colors.primary, "O"),
     Call(fx, fy + 1, fz, colors.primary, "O"),
     Call(fx, fy - 1, fz, colors.primary, "O") >>
  \o (IF Truthy(colors.secondary)
      THEN << Call(fx, fy, fz + 1, colors.secondary, "O") >> ELSE <<>>)

BushFlower(fx, fy, fz, colors) ==
  IF fy > 2
  THEN << Call(fx, fy, fz, FlowerCenterColor(colors), "O"),
          Call(fx + 1, fy, fz, colors.primary, "O"),
          Call(fx - 1, fy, fz, colors.primary, "O"),
          Call(fx, fy + 1, fz, colors.primary, "O"),
          Call(fx, fy - 1, fz, colors.primary, "O") >>
       \o (IF Truthy(colors.secondary)
           THEN << Call(fx, fy, fz + 1, colors.secondary, "O") >> ELSE <<>>)
  ELSE <<>>

RECURSIVE BushFlowers(_, _, _)
BushFlowers(i, r, colors) ==
  IF i = 8 THEN [calls |-> <<>>, rng |-> r]
  ELSE LET u == Rand(r)
           v == Rand(NextRng(r))
           p == SpherePoint[u + 1][v + 1]
           rest == BushFlowers(i + 1, NextRng(NextRng(r)), colors)
       IN  [calls |-> BushFlower(p[1], p[2], p[3], colors) \o rest.calls,
            rng |-> rest.rng]

BushCalls(r, colors) ==
  LET mass == BushMass(-4, r, colors)
      flowers == BushFlowers(0, mass.rng, colors)
  IN  [calls |-> mass.calls \o BushTrunk \o flowers.calls, rng |-> flowers.rng]

----------------------------------------------------------------------------
\* TREE_SMALL

\* branches = [[2, 8], [-2, 8], [0, 9], [2, 10, 2], [-2, 10, -2]] as (bx, bz),
\* bz defaulting to 0; the second component is not used by the recipe.
Branches == << <<2, 0>>, <<-2, 0>>, <<0, 0>>, <<2, 2>>, <<-2, -2>> >>

TreeTrunk ==
  Flat([k \in 1..8 |->
     LET y == k - 1 IN
     << Call(0, y, 0, TreeTrunkColor, "S") >>
     \o (IF y < 4 THEN << Call(1, y, 0, TreeTrunkColor, "S"),
                          Call(0, y, 1, TreeTrunkColor, "S") >>
         ELSE <<>>)])

\* Manhattan-distance threshold of the canopy patch
CanopyLimit == 3

\* A faulty tip test: alternate branches only.
HasTipAccentAlternate(idx, colors) == Truthy(colors.primary) /\ idx % 2 = 0

\* if (primary): every branch whose palette has a primary color
HasTipAccent(idx, colors) == Truthy(colors.primary)

TreeBranch(idx, colors) ==
  LET bx == Branches[idx + 1][1]
      bz == Branches[idx + 1][2]
      line == [k \in 1..5 |->
                Call(Round(bx * (k - 1), 4), 7 + (k - 1), Round(bz * (k - 1), 4),
                     TreeTrunkColor, "S")]
      cells == [k \in 1..25 |-> << (k - 1) \div 5 - 2, ((k - 1) % 5) - 2 >>]
      patch == SelectSeq(cells, LAMBDA c : Abs(c[1]) + Abs(c[2]) < CanopyLimit)
      canopy == [k \in 1..Len(patch) |->
                  Call(bx + patch[k][1], 10 + (idx % 2), bz + patch[k][2],
                       colors.foliage, "M")]
      flowers == IF HasTipAccent(idx, colors)
                 THEN << Call(bx, 11 + (idx % 2), bz, colors.primary, "O"),
                         Call(bx + 1, 11 + (idx % 2), bz, colors.primary, "O") >>
                      \o (IF Truthy(colors.secondary)
                          THEN << Call(bx, 11 + (idx % 2), bz + 1, colors.secondary, "O") >>
                          ELSE <<>>)
                 ELSE <<>>
  IN  line \o canopy \o flowers

TreeCalls(colors) == TreeTrunk \o Flat([k \in 1..5 |-> TreeBranch(k - 1, colors)])

----------------------------------------------------------------------------
\* BROAD_LEAF

LeafDirs == << <<2, 2>>, <<-2, 2>>, <<0, 3>>, <<2, -1>>, <<-2, -1>> >>
LeafSize == 3

BroadBase ==
  Flat([k \in 1..3 |-> << Call(0, k - 1, 0, "", "S"), Call(1, k - 1, 1, "", "S") >>])

\* Math.round of the coordinate accumulated by s additions of dir * 0.3
StalkCoord(dir, s) == Round(3 * dir * s, 10)

IsHole(lx, lz) == (lx = 1 /\ lz = 1) \/ (lx = -1 /\ lz = 2)

BroadLeaf(i, colors) ==
  LET dirX == LeafDirs[i + 1][1]
      dirZ == LeafDirs[i + 1][2]
      stalk == [s \in 1..4 |->
                  Call(StalkCoord(dirX, s), s, StalkCoord(dirZ, s), colors.foliage, "M")]
      cx == StalkCoord(dirX, 4)
      cz == StalkCoord(dirZ, 4)
      side == 2 * LeafSize + 1
      cells == [k \in 1..(side * side) |->
                  << (k - 1) \div side - LeafSize, ((k - 1) % side) - LeafSize >>]
      blade == SelectSeq(cells, LAMBDA c :
                  Abs(c[1]) + Abs(c[2]) <= LeafSize + 1 /\ ~IsHole(c[1], c[2]))
      leaf == [k \in 1..Len(blade) |->
                  Call(cx + blade[k][1], 4 + Round(-Abs(blade[k][1]), 2),
                       cz + blade[k][2], colors.foliage, "M")]
  IN  stalk \o leaf

\* A faulty guard: the feature flower is always emitted.
HasFeatureFlowerAlways(colors) == TRUE

\* if (primary !== foliage)
HasFeatureFlower(colors) == colors.primary # colors.foliage

BroadFeature(colors) ==
  IF HasFeatureFlower(colors)
  THEN [k \in 1..12 |-> Call(0, k - 1, 1, FeatureStalkColor, "O")]
       \o [k \in 1..9 |-> Call((k - 1) \div 3 - 1, 11 + ((k - 1) % 3), 2, colors.primary, "O")]
       \o (IF Truthy(colors.secondary)
           THEN << Call(0, 12, 3, colors.secondary, "O"),
                   Call(0, 13, 3, colors.secondary, "O") >>
           ELSE <<>>)
  ELSE <<>>

BroadCalls(colors) ==
  [k \in 1..Len(BroadBase) |-> [BroadBase[k] EXCEPT !.color = colors.foliage]]
  \o Flat([k \in 1..5 |-> BroadLeaf(k - 1, colors)])
  \o BroadFeature(colors)

----------------------------------------------------------------------------
\* VINE

VineHeight == 18

\* Math.round(Math.sin(y * 0.5) * 2) and Math.round(Math.cos(y * 0.5) * 2)
\* for y = 0 .. 17 (entry y + 1)
VineX == <<0, 1, 2, 2, 2, 1, 0, -1, -2, -2, -2, -1, -1, 0, 1, 2, 2, 2>>
VineZ == <<2, 2, 1, 0, -1, -2, -2, -2, -1, 0, 1, 1, 2, 2, 2, 1, 0, -1>>

\* Math.random() > 0.3
CloudCell(lvl) == 10 * lvl > 3 * Levels

\* The loop nest ox in -1..1, oz in -1..1, flattened to k in 0..8.
RECURSIVE VineCloud(_, _, _, _, _, _)
VineCloud(k, r, vx, y, vz, colors) ==
  IF k = 9 THEN [calls |-> <<>>, rng |-> r]
  ELSE LET rest == VineCloud(k + 1, NextRng(r), vx, y, vz, colors)
       IN  IF CloudCell(Rand(r))
           THEN [calls |-> << Call(vx + (k \div 3) - 1, y, vz + (k % 3) - 1,
                                   colors.foliage, "M") >> \o rest.calls,
                 rng |-> rest.rng]
           ELSE rest

\* A faulty accent test: also at height 3.
HasVineAccentFrom3(y) == y % 3 = 0 /\ y >= 3

\* if (y % 3 === 0 && y > 3)
HasVineAccent(y) == y % 3 = 0 /\ y > 3

VineAccent(vx, y, vz, colors) ==
  IF HasVineAccent(y)
  THEN << Call(vx + 1, y, vz, colors.primary, "O"),
          Call(vx + 1, y - 1, vz, colors.primary, "O"),
          Call(vx + 2, y, vz, colors.primary, "O") >>
       \o (IF Truthy(colors.secondary)
           THEN << Call(vx + 1, y, vz + 1, colors.secondary, "O") >> ELSE <<>>)
  ELSE <<>>

RECURSIVE VineCalls(_, _, _)
VineCalls(y, r, colors) ==
  IF y = VineHeight THEN [calls |-> <<>>, rng |-> r]
  ELSE LET vx == VineX[y + 1]
           vz == VineZ[y + 1]
           cloud == IF y % 2 = 0 THEN VineCloud(0, r, vx, y, vz, colors)
                    ELSE [calls |-> <<>>, rng |-> r]
           rest == VineCalls(y + 1, cloud.rng, colors)
       IN  [calls |-> << Call(vx, y, vz, BushTrunkColor, "S") >> \o cloud.calls
                      \o VineAccent(vx, y, vz, colors) \o rest.calls,
            rng |-> rest.rng]

----------------------------------------------------------------------------
\* ORCHID

OrchidPot == [k \in 1..9 |-> Call((k - 1) \div 3 - 1, 0, ((k - 1) % 3) - 1, PotColor, "S")]

OrchidLeaves(colors) ==
  << Call(1, 1, 0, colors.foliage, "M"), Call(2, 2, 0, colors.foliage, "M"),
     Call(-1, 1, 0, colors.foliage, "M"), Call(-2, 2, 0, colors.foliage, "M") >>

StemSteps == 15

\* One iteration of the stem loop, entered with the values (sx, sy) left by
\* the previous one.
RECURSIVE OrchidStem(_, _, _, _)
OrchidStem(i, sx, sy, colors) ==
  IF i = StemSteps THEN <<>>
  ELSE LET sy1 == sy + 1
           sx2 == IF i > 5 THEN sx + 1 ELSE sx
           sy2 == IF i > 10 THEN sy1 - 1 ELSE sy1
           flower == IF i > 6 /\ i % 2 = 0
                     THEN << Call(sx2, sy2 - 1, 1, colors.primary, "O"),
                             Call(sx2 + 1, sy2 - 1, 1, colors.primary, "O"),
                             Call(sx2 - 1, sy2 - 1, 1, colors.primary, "O") >>
                          \o (IF Truthy(colors.secondary)
                              THEN << Call(sx2, sy2 - 1, 2, colors.secondary, "O") >>
                              ELSE <<>>)
                     ELSE <<>>
       IN  << Call(sx2, sy2, 0, StemColor, "S") >> \o flower
           \o OrchidStem(i + 1, sx2, sy2, colors)

OrchidCalls(colors) == OrchidPot \o OrchidLeaves(colors) \o OrchidStem(0, 0, 1, colors)

----------------------------------------------------------------------------
\* default: a single foliage column

FallbackHeight == 10

\* A faulty fallback: the column takes the primary color.
DefaultCallsPrimary(colors) == [k \in 1..FallbackHeight |-> Call(0, k - 1, 0, colors.primary, "S")]

DefaultCalls(colors) == [k \in 1..FallbackHeight |-> Call(0, k - 1, 0, colors.foliage, "S")]

----------------------------------------------------------------------------
\* generateVoxels: the add calls of the recipe selected by `type`, and the
\* state of the random generator after them

PlantCalls(type, colors, r) ==
  CASE type = "TALL_FLOWER" -> TallCalls(0, r, colors)
    [] type = "BUSH_FLOWER" -> BushCalls(r, colors)
    [] type = "TREE_SMALL"  -> [calls |-> TreeCalls(colors), rng |-> r]
    [] type = "BROAD_LEAF"  -> [calls |-> BroadCalls(colors), rng |-> r]
    [] type = "VINE"        -> VineCalls(0, r, colors)
    [] type = "ORCHID"      -> [calls |-> OrchidCalls(colors), rng |-> r]
    [] OTHER                -> [calls |-> DefaultCalls(colors), rng |-> r]

----------------------------------------------------------------------------
\* generateCharacterVoxels: its add calls, in program order

Skin == "#FFDCB1"
Hair == "#1a1a1a"
Shirt == "#FFFFFF"
Shorts == "#1a1a1a"
Shoes == "#333333"

CharacterCallsFixed ==
  << Call(-1, 0, 0, Shoes, "leg"), Call(-1, 1, 0, Skin, "leg"), Call(-1, 2, 0, Shorts, "leg"),
     Call(1, 0, 0, Shoes, "leg"), Call(1, 1, 0, Skin, "leg"), Call(1, 2, 0, Shorts, "leg"),
     Call(0, 2, 0, Shorts, "hips"), Call(-1, 2, 0, Shorts, "hips"), Call(1, 2, 0, Shorts, "hips") >>
  \o [k \in 1..9 |-> Call(((k - 1) % 3) - 1, 3 + (k - 1) \div 3, 0, Shirt, "torso")]
  \o << Call(-2, 5, 0, Shirt, "arm"), Call(-2, 4, 0, Skin, "arm"),
        Call(2, 5, 0, Shirt, "arm"), Call(2, 4, 0, Skin, "arm") >>
  \o [k \in 1..27 |-> Call(((k - 1) % 9) \div 3 - 1, 6 + (k - 1) \div 9, ((k - 1) % 3) - 1,
                           Skin, "head")]
  \o [k \in 1..9 |-> Call((k - 1) \div 3 - 1, 9, ((k - 1) % 3) - 1, Hair, "hair")]
  \o << Call(-2, 8, 0, Hair, "hair"), Call(2, 8, 0, Hair, "hair"),
        Call(0, 8, -2, Hair, "hair"), Call(-1, 8, -2, Hair, "hair"), Call(1, 8, -2, Hair, "hair"),
        Call(-1, 8, 1, Hair, "hair"), Call(1, 8, 1, Hair, "hair"), Call(0, 8, 1, Hair, "hair") >>

\* A faulty avatar recipe: the bangs are emitted only when a random draw
\* (read without advancing the generator) is high, as in the plant recipes.
CharacterCallsRandomBangs ==
  IF 2 * Rand(rng) >= Levels THEN CharacterCallsFixed
  ELSE SubSeq(CharacterCallsFixed, 1, Len(CharacterCallsFixed) - 3)

CharacterCalls == CharacterCallsFixed

----------------------------------------------------------------------------
\* The synthesizer calls as a state machine: one step per add

NoResult == [voxels |-> <<>>, layers |-> <<>>, done |-> FALSE]

\* Initial states of the generator: SeedStride apart
SeedStride == 21
Seeds == {(SeedStride * k) % RngMod : k \in 0..(NumSeeds - 1)}

SynthStart ==
  /\ data \in [type : Categories, colors : Palettes]
  /\ phase = "idle"
  /\ calls = <<>>
  /\ pc = 1
  /\ voxels = <<>>
  /\ layers = <<>>
  /\ nCalls = 0
  /\ lastPlant = NoResult
  /\ lastChar = NoResult

\* Plant: useMemo(() => generateVoxels(data.type, data.colors), [data])
\* entry of generateVoxels: a fresh array, the recipe chosen by the switch
StartPlant ==
  /\ phase = "idle"
  /\ nCalls < MaxCalls
  /\ LET pcs == PlantCalls(data.type, data.colors, rng)
     IN  /\ calls' = pcs.calls
         /\ rng' = pcs.rng
  /\ phase' = "plant"
  /\ pc' = 1
  /\ voxels' = <<>>
  /\ layers' = <<>>
  /\ nCalls' = nCalls + 1
  /\ UNCHANGED <<data, lastPlant, lastChar>>

\* one add(x, y, z, color) of the running recipe
AddStep ==
  /\ phase = "plant"
  /\ pc <= Len(calls)
  /\ voxels' = add(voxels, calls[pc])
  /\ layers' = IF Len(voxels') > Len(voxels) THEN Append(layers, calls[pc].layer)
               ELSE layers
  /\ pc' = pc + 1
  /\ UNCHANGED <<rng, data, phase, calls, nCalls, lastPlant, lastChar>>

\* return voxels
ReturnPlant ==
  /\ phase = "plant"
  /\ pc > Len(calls)
  /\ lastPlant' = [voxels |-> voxels, layers |-> layers, done |-> TRUE]
  /\ phase' = "idle"
  /\ calls' = <<>>
  /\ pc' = 1
  /\ voxels' = <<>>
  /\ layers' = <<>>
  /\ UNCHANGED <<rng, data, nCalls, lastChar>>

\* Character: useMemo(() => generateCharacterVoxels(), [])
StartChar ==
  /\ phase = "idle"
  /\ nCalls < MaxCalls
  /\ calls' = CharacterCalls
  /\ phase' = "char"
  /\ pc' = 1
  /\ voxels' = <<>>
  /\ layers' = <<>>
  /\ nCalls' = nCalls + 1
  /\ UNCHANGED <<rng, data, lastPlant, lastChar>>

PushStep ==
  /\ phase = "char"
  /\ pc <= Len(calls)
  /\ voxels' = addChar(voxels, calls[pc])
  /\ layers' = Append(layers, calls[pc].layer)
  /\ pc' = pc + 1
  /\ UNCHANGED <<rng, data, phase, calls, nCalls, lastPlant, lastChar>>

ReturnChar ==
  /\ phase = "char"
  /\ pc > Len(calls)
  /\ lastChar' = [voxels |-> voxels, layers |-> layers, done |-> TRUE]
  /\ phase' = "idle"
  /\ calls' = <<>>
  /\ pc' = 1
  /\ voxels' = <<>>
  /\ layers' = <<>>
  /\ UNCHANGED <<rng, data, nCalls, lastPlant>>

----------------------------------------------------------------------------
\* Memoization of the voxel sets (useMemo in Plant and in Character)

\* nothing stored yet
NoDeps == -1
\* the dependency list [] of Character's useMemo
EmptyDeps == 0

\* What causes a render of Plant and Character: the mount, a frame (the tick
\* ends with setCharPos), a new target, a change of hoveredId, a change of
\* the weather, a new data object
Mount == "mount"
NewData == "data"
Rerenders == {"tick", "target", "hover", "weather"}

\* A faulty memo: no dependency list, the value is computed in every render.
MemoHitNever(stored, now) == FALSE

\* useMemo: the stored value is used when every dependency is the one stored
MemoHit(stored, now) == stored = now

\* before the mount
RenderStart ==
  /\ dataRef = 0
  /\ memoDeps = NoDeps
  /\ charDeps = NoDeps
  /\ cause = Mount

\* A render of Plant: useMemo(() => generateVoxels(data.type, data.colors), [data])
RenderPlant(c) ==
  /\ phase = "idle"
  /\ c = Mount <=> memoDeps = NoDeps
  /\ c = NewData <=> (memoDeps # NoDeps /\ memoDeps # dataRef)
  /\ cause' = c
  /\ IF MemoHit(memoDeps, dataRef)
     THEN UNCHANGED <<vvars, memoDeps>>
     ELSE StartPlant /\ memoDeps' = dataRef
  /\ UNCHANGED <<dataRef, charDeps>>

\* A render of Character: useMemo(() => generateCharacterVoxels(), [])
RenderCharacter(c) ==
  /\ phase = "idle"
  /\ c = Mount <=> charDeps = NoDeps
  /\ c # NewData
  /\ cause' = c
  /\ IF MemoHit(charDeps, EmptyDeps)
     THEN UNCHANGED <<vvars, charDeps>>
     ELSE StartChar /\ charDeps' = EmptyDeps
  /\ UNCHANGED <<dataRef, memoDeps>>

\* The parent passes another object as data (the catalog itself never does)
ReplaceData ==
  /\ phase = "idle"
  /\ memoDeps = dataRef
  /\ dataRef < MaxCalls
  /\ dataRef' = dataRef + 1
  /\ UNCHANGED <<vvars, memoDeps, charDeps, cause>>

----------------------------------------------------------------------------
\* Locomotion and collision (Character.useFrame)
\*
\* Lengths are fixed-point numbers in units of 1 / Unit world unit, times are
\* in frames of 1 / FramesPerSecond second.  A vector is a record [x, y, z].

Unit == 60
FramesPerSecond == 60

\* const speed = 4 (world units per second)
Speed == 4
\* step = speed * delta
Step(dt) == (Speed * Unit * dt) \div FramesPerSecond

\* if (distToTarget > 0.1)
Epsilon == Unit \div 10
\* const CHARACTER_RADIUS = 0.4
CharacterRadius == (4 * Unit) \div 10

Vec(x, y, z) == [x |-> x, y |-> y, z |-> z]
Origin == Vec(0, 0, 0)
\* the values of Vector3, in units
Vector3 == [x : Int, y : Int, z : Int]
Plus[a \in Vector3, b \in Vector3] == Vec(a.x + b.x, a.y + b.y, a.z + b.z)
Minus[a \in Vector3, b \in Vector3] == Vec(a.x - b.x, a.y - b.y, a.z - b.z)
\* Vector3.lengthSq
Len2[v \in Vector3] == v.x * v.x + v.y * v.y + v.z * v.z
\* the square of Vector3.distanceTo
Dist2[a \in Vector3, b \in Vector3] == Len2[Minus[a, b]]

\* floor of the square root, by bisection of lo .. hi
ISqrtSearch[n \in Nat, lo \in Nat, hi \in Nat] ==
  IF lo = hi THEN lo
  ELSE LET mid == (lo + hi + 1) \div 2
       IN  IF mid * mid <= n THEN ISqrtSearch[n, mid, hi] ELSE ISqrtSearch[n, lo, mid - 1]
ISqrt(n) == ISqrtSearch[n, 0, 46340]

\* n / d rounded to the nearest integer (d > 0)
RoundDiv[n \in Int, d \in Nat] ==
  IF n >= 0 THEN (2 * n + d) \div (2 * d) ELSE -((2 * (-n) + d) \div (2 * d))

\* The number of fractional steps with which the length of a vector of squared
\* length d2 is computed: the shorter the vector, the finer.
Prec(d2) == IF d2 < 1000 THEN 1024 ELSE IF d2 < 16000 THEN 256 ELSE IF d2 < 260000 THEN 64 ELSE 16

\* Vector3.normalize().multiplyScalar(len): a zero vector stays zero
ScaleTo[d \in Vector3, len \in Int] ==
  IF Len2[d] = 0 THEN d
  ELSE LET p == Prec(Len2[d])
           n == ISqrt(Len2[d] * p * p)
       IN  Vec(RoundDiv[d.x * len * p, n], RoundDiv[d.y * len * p, n], RoundDiv[d.z * len * p, n])

\* A faulty lookup: the radii of BROAD_LEAF and TREE_SMALL are exchanged.
getPlantRadiusSwapped(type) ==
  CASE type = "BUSH_FLOWER" -> (15 * Unit) \div 10
    [] type = "BROAD_LEAF"  -> (10 * Unit) \div 10
    [] type = "TREE_SMALL"  -> (12 * Unit) \div 10
    [] type = "VINE"        -> (8 * Unit) \div 10
    [] OTHER                -> (8 * Unit) \div 10

\* getPlantRadius
getPlantRadius(type) ==
  CASE type = "BUSH_FLOWER" -> (15 * Unit) \div 10
    [] type = "BROAD_LEAF"  -> (12 * Unit) \div 10
    [] type = "TREE_SMALL"  -> (10 * Unit) \div 10
    [] type = "VINE"        -> (8 * Unit) \div 10
    [] OTHER                -> (8 * Unit) \div 10

\* collisionDist = getPlantRadius(plant.type) + CHARACTER_RADIUS
CollisionDist(type) == getPlantRadius(type) + CharacterRadius

\* plantPos = new Vector3(plant.position[0], 0, plant.position[2])
PlantPos(plant) == Vec(plant.position[1], 0, plant.position[3])

\* A faulty push: along the normal, but only as far as the plant's own radius.
PushOutShort(p, c, R) ==
  IF Len2[Minus[p, c]] = 0 THEN Plus[c, Vec(R - CharacterRadius, 0, 0)]
  ELSE Plus[c, ScaleTo[Minus[p, c], R - CharacterRadius]]

\* A faulty push: no fallback direction, a zero normal stays zero.
PushOutNoFallback(p, c, R) == Plus[c, ScaleTo[Minus[p, c], R]]

\* correctedPos.copy(plantPos).add(normal.multiplyScalar(collisionDist)), with
\* normal = (1, 0, 0) when the two points coincide
PushOut(p, c, R) ==
  IF Len2[Minus[p, c]] = 0 THEN Plus[c, Vec(R, 0, 0)]
  ELSE Plus[c, ScaleTo[Minus[p, c], R]]

\* A faulty test: a position exactly on the perimeter counts as a collision.
InsideInclusive(d2, R) == d2 <= R * R

\* if (dist < collisionDist)
Inside(d2, R) == d2 < R * R

\* A faulty loop: it stops at the first plant that corrects the position.
RECURSIVE CollideFirstOnly(_, _, _, _, _)
CollideFirstOnly(cat, k, p, hits, trail) ==
  IF k > Len(cat) \/ hits # <<>> THEN [pos |-> p, hits |-> hits, trail |-> trail]
  ELSE LET c == PlantPos(cat[k])
           R == CollisionDist(cat[k].type)
           q == PushOut(p, c, R)
       IN  IF Inside(Dist2[p, c], R)
           THEN CollideFirstOnly(cat, k + 1, q, Append(hits, k),
                                 Append(trail, [plant |-> k, before |-> p, after |-> q]))
           ELSE CollideFirstOnly(cat, k + 1, p, hits, trail)

\* GARDEN_DATA.forEach: plant k and the ones after it, applied to the running
\* corrected position p; hits lists the plants that corrected it, trail the
\* position before and after each correction
RECURSIVE Collide(_, _, _, _, _)
Collide(cat, k, p, hits, trail) ==
  IF k > Len(cat) THEN [pos |-> p, hits |-> hits, trail |-> trail]
  ELSE LET c == PlantPos(cat[k])
           R == CollisionDist(cat[k].type)
           q == PushOut(p, c, R)
       IN  IF Inside(Dist2[p, c], R)
           THEN Collide(cat, k + 1, q, Append(hits, k),
                        Append(trail, [plant |-> k, before |-> p, after |-> q]))
           ELSE Collide(cat, k + 1, p, hits, trail)

\* A faulty test: the avatar keeps seeking until it is exactly on the target.
IsSeekingExact(d2) == d2 > 0

\* if (distToTarget > 0.1)
IsSeeking(d2) == d2 > Epsilon * Epsilon

\* if (moveVector.length() > distToTarget)
Overshoots(step, d2) == step * step > d2

\* A faulty step: the move vector is never clamped to the remaining distance.
MoveVectorUnclamped(d, step) == ScaleTo[d, step]

\* moveVector: direction * step, cut to the remaining distance
MoveVector(d, step) ==
  IF Overshoots(step, Len2[d]) THEN d ELSE ScaleTo[d, step]

\* A faulty idle branch: the avatar snaps onto the target.
IdlePositionSnap(p, t) == t

\* the else branch: position.current is not written
IdlePosition(p, t) == p

\* One call of the useFrame callback with position p, target t and delta dt
TickResult(cat, p, t, dt) ==
  LET d == Minus[t, p]
  IN  IF IsSeeking(Len2[d])
      THEN LET proposed == Plus[p, MoveVector(d, Step(dt))]
               c == Collide(cat, 1, proposed, <<>>, <<>>)
           IN  [seeking |-> TRUE, pos |-> c.pos, hits |-> c.hits, trail |-> c.trail,
                proposed |-> proposed, look |-> Vec(t.x, c.pos.y, t.z)]
      ELSE [seeking |-> FALSE, pos |-> IdlePosition(p, t), hits |-> <<>>, trail |-> <<>>,
            proposed |-> p, look |-> <<>>]

\* The shipped catalog: plant i at radius 4 + i and angle 2.4 i
GardenData ==
  <<
     [id |-> 0, type |-> "TALL_FLOWER", position |-> <<240, 0, 0>>],
     [id |-> 1, type |-> "BUSH_FLOWER", position |-> <<-221, 0, 203>>],
     [id |-> 2, type |-> "TREE_SMALL", position |-> <<31, 0, -359>>],
     [id |-> 3, type |-> "VINE", position |-> <<256, 0, 333>>],
     [id |-> 4, type |-> "BROAD_LEAF", position |-> <<-473, 0, -84>>],
     [id |-> 5, type |-> "TALL_FLOWER", position |-> <<456, 0, -290>>],
     [id |-> 6, type |-> "ORCHID", position |-> <<-156, 0, 579>>],
     [id |-> 7, type |-> "TALL_FLOWER", position |-> <<-304, 0, -586>>],
     [id |-> 8, type |-> "BUSH_FLOWER", position |-> <<676, 0, 247>>],
     [id |-> 9, type |-> "VINE", position |-> <<-721, 0, 297>>],
     [id |-> 10, type |-> "TALL_FLOWER", position |-> <<356, 0, -761>>],
     [id |-> 11, type |-> "VINE", position |-> <<269, 0, 859>>],
     [id |-> 12, type |-> "BROAD_LEAF", position |-> <<-830, 0, -482>>],
     [id |-> 13, type |-> "BROAD_LEAF", position |-> <<996, 0, -219>>],
     [id |-> 14, type |-> "BUSH_FLOWER", position |-> <<-622, 0, 883>>],
     [id |-> 15, type |-> "BROAD_LEAF", position |-> <<-146, 0, -1131>>],
     [id |-> 16, type |-> "ORCHID", position |-> <<917, 0, 774>>],
     [id |-> 17, type |-> "TREE_SMALL", position |-> <<-1259, 0, 51>>],
     [id |-> 18, type |-> "BROAD_LEAF", position |-> <<936, 0, -930>>],
     [id |-> 19, type |-> "VINE", position |-> <<-65, 0, 1378>>]
  >>

\* The test scene: one BUSH_FLOWER at the origin
SingleBush == << [id |-> 0, type |-> "BUSH_FLOWER", position |-> <<0, 0, 0>>] >>
ScenarioStart == Vec(-5 * Unit, 0, 0)
ScenarioTarget == Vec(5 * Unit, 0, 0)

\* A test scene with overlapping exclusion zones: a VINE at the origin and,
\* after it in the catalog, a BUSH_FLOWER at (2.5, 0); the avatar starts at
\* (1, -1.5), outside both zones
PlantPair ==
  << [id |-> 0, type |-> "VINE", position |-> <<0, 0, 0>>],
     [id |-> 1, type |-> "BUSH_FLOWER", position |-> <<(5 * Unit) \div 2, 0, 0>>] >>
PairStart == Vec(Unit, 0, -((3 * Unit) \div 2))

\* Math.abs(Math.sin(t * 12)) * 0.15 lies in 0 .. BobMax; the samples explored
\* are its extremes and, at 60 frames per second, its middle
BobMax == (15 * Unit) \div 100
BobSamples(sc) == IF sc = "scenario" THEN {0, BobMax \div 2, BobMax} ELSE {0, BobMax}

\* The scenes explored:
\*   "garden"    the shipped catalog, the avatar starting at the origin;
\*   "single"    one BUSH_FLOWER at (0, 0), the avatar starting at (-5, 0);
\*   "scenario"  the same at 60 frames per second with the target fixed at (5, 0);
\*   "pair"      the two plants of PlantPair, the avatar starting at (1, -1.5);
\*   "stroll"    the shipped catalog again, with targets between its first and
\*               its fourth plant;
\*   "fixed"     one BUSH_FLOWER at (0, 0), the avatar starting at one of
\*               FixedStarts with the target fixed at one of FixedTargets.
Scenes == {"garden", "single", "scenario", "pair", "stroll", "fixed"}

\* GARDEN_DATA
Catalog(sc) ==
  CASE sc \in {"garden", "stroll"} -> GardenData
    [] sc = "pair" -> PlantPair
    [] OTHER -> SingleBush

\* Frame deltas, in frames of 1/60 s: 1/60 s in the scenario, 1/4 s on the long
\* walks of the single scene and with a fixed target, 1/4 s and 1/2 s elsewhere
Deltas(sc) ==
  CASE sc = "scenario" -> {1}
    [] sc = "single" -> {15}
    [] sc = "fixed" -> {15}
    [] OTHER -> {15, 30}

\* Points of the floor the pointer selects
GardenTargets ==
  { Origin, Vec(6 * Unit, 0, 0), Vec(4 * Unit, 0, (3 * Unit) \div 4) }
SingleTargets ==
  { ScenarioTarget, Vec(5 * Unit, 0, 2 * Unit), Vec(-((19 * Unit) \div 10), 0, 0) }
PairTargets ==
  { Vec(Unit, 0, (3 * Unit) \div 2), PairStart }
StrollTargets ==
  { Vec((9 * Unit) \div 2, 0, 2 * Unit), Vec((21 * Unit) \div 5, 0, (7 * Unit) \div 2) }
Targets(sc) ==
  CASE sc = "garden" -> GardenTargets
    [] sc = "stroll" -> StrollTargets
    [] sc = "single" -> SingleTargets
    [] sc = "pair" -> PairTargets
    [] OTHER -> {}

\* Starts and fixed targets around the single BUSH_FLOWER: the target behind
\* the plant on the line of travel, inside its exclusion zone, and two targets
\* with a clear straight path from one of the starts
FixedStarts == { ScenarioStart, Vec(-5 * Unit, 0, 3 * Unit), Vec(-4 * Unit, 0, -2 * Unit) }
FixedTargets ==
  { ScenarioTarget, Vec(Unit \div 2, 0, 0), Vec(5 * Unit, 0, 3 * Unit), Vec(-3 * Unit, 0, 0) }

\* null
Null == -1

\* let minDist = 4.0
InteractionRadius == 4 * Unit

\* pPos = new Vector3(...p.position)
PlantPos3(plant) == Vec(plant.position[1], plant.position[2], plant.position[3])

\* A faulty search: minDist is not lowered, the last plant in range is taken.
RECURSIVE NearestFromNoUpdate(_, _, _, _, _)
NearestFromNoUpdate(cat, k, p, min2, nearest) ==
  IF k > Len(cat) THEN nearest
  ELSE IF Dist2[PlantPos3(cat[k]), p] < min2
       THEN NearestFromNoUpdate(cat, k + 1, p, min2, cat[k].id)
       ELSE NearestFromNoUpdate(cat, k + 1, p, min2, nearest)

\* GARDEN_DATA.forEach of the proximity effect: plant k and the ones after it,
\* min2 the square of minDist, nearest the id of the plant found so far
RECURSIVE NearestFrom(_, _, _, _, _)
NearestFrom(cat, k, p, min2, nearest) ==
  IF k > Len(cat) THEN nearest
  ELSE IF Dist2[PlantPos3(cat[k]), p] < min2
       THEN NearestFrom(cat, k + 1, p, Dist2[PlantPos3(cat[k]), p], cat[k].id)
       ELSE NearestFrom(cat, k + 1, p, min2, nearest)

\* GARDEN_DATA.find(p => p.id === hoveredId) || null
FindPlant(cat, id) == IF \E k \in 1..Len(cat) : cat[k].id = id THEN id ELSE Null

\* The proximity effect of GameScene, run with charPos = p and hoveredId = hov:
\* the plant handed to setHoveredPlant
ProximityEffect(cat, p, hov) ==
  IF hov = Null THEN NearestFrom(cat, 1, p, InteractionRadius * InteractionRadius, Null)
  ELSE FindPlant(cat, hov)

\* Plants (by place in the catalog) the pointer passes over
HoverPlants == {1, 4}

NoTick == [ticked |-> FALSE]

\* the scene at its start: the avatar at the origin, the target at the origin
GardenStart ==
  /\ scene = "garden"
  /\ hoveredId = Null
  /\ pointerOn = {}
  /\ nTargets = 0
  /\ pos = Origin
  /\ target = Origin
  /\ prevTarget = Origin
  /\ mode = "IDLE"
  /\ bob = 0
  /\ retargeted = FALSE
  /\ last = NoTick
  /\ activePlant = ProximityEffect(GardenData, Origin, Null)

\* the stroll: the garden's catalog and start
StrollStart ==
  /\ scene = "stroll"
  /\ hoveredId = Null
  /\ pointerOn = {}
  /\ nTargets = 0
  /\ pos = Origin
  /\ target = Origin
  /\ prevTarget = Origin
  /\ mode = "IDLE"
  /\ bob = 0
  /\ retargeted = FALSE
  /\ last = NoTick
  /\ activePlant = ProximityEffect(GardenData, Origin, Null)

\* the test scene: the avatar at (-5, 0), the target set to (5, 0)
SingleStart ==
  /\ scene \in {"single", "scenario"}
  /\ hoveredId = Null
  /\ pointerOn = {}
  /\ nTargets = 0
  /\ pos = ScenarioStart
  /\ target = ScenarioTarget
  /\ prevTarget = ScenarioTarget
  /\ mode = "IDLE"
  /\ bob = 0
  /\ retargeted = TRUE
  /\ last = NoTick
  /\ activePlant = ProximityEffect(SingleBush, ScenarioStart, Null)

\* the test scene of the plant pair: the target set to (1, 1.5)
PairSceneStart ==
  /\ scene = "pair"
  /\ hoveredId = Null
  /\ pointerOn = {}
  /\ nTargets = 0
  /\ pos = PairStart
  /\ target = Vec(Unit, 0, (3 * Unit) \div 2)
  /\ prevTarget = Vec(Unit, 0, (3 * Unit) \div 2)
  /\ mode = "IDLE"
  /\ bob = 0
  /\ retargeted = TRUE
  /\ last = NoTick
  /\ activePlant = ProximityEffect(PlantPair, PairStart, Null)

\* a fixed target: the pointer rests on one point of the floor
FixedStart ==
  /\ scene = "fixed"
  /\ hoveredId = Null
  /\ pointerOn = {}
  /\ nTargets = 0
  /\ pos \in FixedStarts
  /\ target \in FixedTargets
  /\ prevTarget = target
  /\ mode = "IDLE"
  /\ bob = 0
  /\ retargeted = TRUE
  /\ last = NoTick
  /\ activePlant = ProximityEffect(SingleBush, pos, Null)

\* no synthesizer call is running
SynthQuiet ==
  /\ rng = 0
  /\ data = [type |-> Unrecognized,
             colors |-> [primary |-> "#FF6600", secondary |-> "#0000FF", foliage |-> "#006400"]]
  /\ phase = "idle"
  /\ calls = <<>>
  /\ pc = 1
  /\ voxels = <<>>
  /\ layers = <<>>
  /\ nCalls = 0
  /\ lastPlant = NoResult
  /\ lastChar = NoResult
  /\ RenderStart

\* A faulty callback: it keeps the target of the render before the last one.
TargetSeenStale(newest, earlier) == earlier

\* targetPosition as the useFrame callback reads it: the prop of the latest
\* render of Character, which is the latest value of targetPos
TargetSeen(newest, earlier) == newest

\* A faulty report: the position of the visual body, bobbing offset included.
ReportedWithBob(p, b) == Vec(p.x, p.y + b, p.z)

\* onPositionChange(position.current.clone()): the logical position, whatever
\* the offset b written to the visual body
Reported(p, b) == p

\* The useFrame callback, called with frame delta dt; the clock reading is
\* one for which the bobbing offset is one of BobSamples.  Its last statement,
\* onPositionChange, sets charPos, which runs the proximity effect.
Tick(dt) ==
  LET t == TargetSeen(target, prevTarget)
      r == TickResult(Catalog(scene), pos, t, dt)
  IN  /\ pos' = r.pos
      /\ mode' = IF r.seeking THEN "SEEKING" ELSE "IDLE"
      /\ IF r.seeking THEN bob' \in BobSamples(scene) ELSE bob' = 0
      /\ retargeted' = FALSE
      /\ last' = [ticked |-> TRUE, from |-> pos, dist2 |-> Dist2[pos, t],
                  step |-> Step(dt), hits |-> r.hits, trail |-> r.trail,
                  proposed |-> r.proposed, look |-> r.look,
                  reported |-> Reported(r.pos, bob')]
      /\ activePlant' = ProximityEffect(Catalog(scene), Reported(r.pos, bob'), hoveredId)
      /\ UNCHANGED <<scene, nTargets, target, prevTarget, hoveredId, pointerOn>>
      /\ UNCHANGED <<vvars, rvars>>

\* GardenFloor.onPointerMove -> onFloorClick -> setTargetPos(pt)
SetTarget(t) ==
  /\ nTargets < MaxTargets
  /\ target' = t
  /\ prevTarget' = target
  /\ nTargets' = nTargets + 1
  /\ retargeted' = TRUE
  /\ last' = NoTick
  /\ UNCHANGED <<scene, pos, mode, bob, hoveredId, activePlant, pointerOn>>
  /\ UNCHANGED <<vvars, rvars>>

\* setHoveredId(id), which runs the proximity effect
SetHovered(id) ==
  /\ hoveredId' = id
  /\ activePlant' = ProximityEffect(Catalog(scene), pos, id)
  /\ UNCHANGED <<scene, nTargets, pos, target, prevTarget, mode, bob, retargeted, last>>
  /\ UNCHANGED <<vvars, rvars>>

----------------------------------------------------------------------------
\* Specifications

\* The synthesizers alone
InitSynth == rng \in Seeds /\ SynthStart /\ RenderStart /\ GardenStart

NextSynth ==
  \/ StartPlant
  \/ AddStep
  \/ ReturnPlant
  \/ StartChar
  \/ PushStep
  \/ ReturnChar

SpecSynth == InitSynth /\ [][NextSynth /\ UNCHANGED <<lvars, rvars>>]_vars

\* Locomotion: any interleaving of frames and pointer moves in each scene
Init == SynthQuiet /\ (GardenStart \/ SingleStart \/ PairSceneStart)

Frame == \E dt \in Deltas(scene) : Tick(dt)
PointerMove == \E t \in Targets(scene) : SetTarget(t)

Next == Frame \/ PointerMove

Spec == Init /\ [][Next]_vars

\* The pointer over the plants: onPointerOver -> onHover(true) and
\* onPointerOut -> onHover(false) of Plant, with
\* onHover = (h) => setHoveredId(h ? plant.id : null)
\* The pointer comes over plant k, and it leaves a plant it is over; which of
\* the two comes first when it passes from one plant to another is up to the
\* event system.
PointerOver ==
  \E k \in HoverPlants \ pointerOn :
     /\ pointerOn' = pointerOn \cup {k}
     /\ SetHovered(Catalog(scene)[k].id)
PointerOut ==
  \E k \in pointerOn :
     /\ pointerOn' = pointerOn \ {k}
     /\ SetHovered(Null)

\* The description panel: frames, pointer moves on the floor and the pointer
\* passing over plants, on the stroll
InitUI == SynthQuiet /\ StrollStart

NextUI == Frame \/ PointerMove \/ PointerOver \/ PointerOut

SpecUI == InitUI /\ [][NextUI]_vars

\* The renders of one Plant and of the Character
InitRender == rng \in Seeds /\ SynthStart /\ RenderStart /\ GardenStart

Render ==
  \E c \in {Mount, NewData} \cup Rerenders : RenderPlant(c) \/ RenderCharacter(c)
Synthesize == AddStep \/ ReturnPlant \/ PushStep \/ ReturnChar

NextRender ==
  \/ Render /\ UNCHANGED lvars
  \/ Synthesize /\ UNCHANGED <<lvars, rvars>>
  \/ ReplaceData /\ UNCHANGED lvars

SpecRender == InitRender /\ [][NextRender]_vars

\* The scenario alone.  The render loop calls the useFrame callback on every
\* frame, so frames keep coming.
InitScenario == SynthQuiet /\ SingleStart /\ scene = "scenario"

SpecScenario == InitScenario /\ [][Frame]_vars /\ WF_vars(Frame)

\* A fixed target, from each start to each target: frames keep coming.
InitFixed == SynthQuiet /\ FixedStart

SpecFixed == InitFixed /\ [][Frame]_vars /\ WF_vars(Frame)

----------------------------------------------------------------------------
\* VoxelMesh: one mesh per entry of voxels, created in array order; of the
\* meshes that share a cell the one created last is drawn last
ShownColor(vs, x, y, z) ==
  LET ks == {k \in 1..Len(vs) : vs[k].x = x /\ vs[k].y = y /\ vs[k].z = z}
  IN  vs[CHOOSE k \in ks : \A j \in ks : j <= k].color

----------------------------------------------------------------------------
\* Properties of the synthesizers (checked under SpecSynth)

SameCell(a, b) == a.x = b.x /\ a.y = b.y /\ a.z = b.z

NoDuplicates(vs) ==
  \A i, j \in 1..Len(vs) : i # j => ~SameCell(vs[i], vs[j])

PlantFinished == phase = "plant" /\ pc > Len(calls)
CharFinished == phase = "char" /\ pc > Len(calls)

\* The voxels of a result that were emitted by the structural layer
Structural(vs, ls) == {vs[k] : k \in {j \in 1..Len(vs) : ls[j] = "S"}}

\* C1: for every category (the six enumerated ones and an unrecognized one),
\* every palette and every state of the random source, the array returned by
\* generateVoxels is non-empty and holds no two entries with the same (x, y, z).
C1_NonEmptyNoDuplicates ==
  PlantFinished => (Len(voxels) > 0 /\ NoDuplicates(voxels))

\* a call has finished in which some add hit an occupied cell
C1_Witness == PlantFinished /\ Len(voxels) < Len(calls)

\* C2: the first writer to a cell wins: an add on a coordinate already present
\* leaves the array unchanged (length, order, colors), an add on a free
\* coordinate appends exactly one entry, the added voxel, at the end.
C2_FirstWriterWins ==
  [][ (phase = "plant" /\ pc' = pc + 1) =>
        LET c == calls[pc] IN
        IF Occupied(voxels, c.x, c.y, c.z)
        THEN voxels' = voxels
        ELSE /\ Len(voxels') = Len(voxels) + 1
             /\ SubSeq(voxels', 1, Len(voxels)) = voxels
             /\ voxels'[Len(voxels')] = [x |-> c.x, y |-> c.y, z |-> c.z, color |-> c.color]
    ]_vars

\* an add with another color than the cell's has been executed and dropped
C2_Witness ==
  /\ phase = "plant"
  /\ \E k \in 1..(pc - 1) : \E j \in 1..Len(voxels) :
        SameCell(calls[k], voxels[j]) /\ calls[k].color # voxels[j].color

\* C8: generateCharacterVoxels is deterministic: a call returns the same
\* sequence of voxels as the call before it, whatever the state of the random
\* source and whatever synthesizer calls ran before or in between.
C8_CharacterDeterministic ==
  (CharFinished /\ lastChar.done) => voxels = lastChar.voxels

\* a second avatar call has finished after a plant call also ran
C8_Witness == CharFinished /\ lastChar.done /\ lastPlant.done /\ Len(voxels) > 0

\* C9 as stated: for every category two calls with the same palette return
\* the same structural-layer voxels.
C9_StructuralIdentical ==
  (PlantFinished /\ lastPlant.done) =>
     Structural(voxels, layers) = Structural(lastPlant.voxels, lastPlant.layers)

\* C9 amended: for TREE_SMALL, BROAD_LEAF, VINE, ORCHID and the fallback
\* category two calls with the same palette return the same structural-layer
\* voxels (coordinates and colors), whatever the random source yields.
C9_StructuralIdenticalExceptTallBush ==
  (PlantFinished /\ lastPlant.done /\ data.type \notin {"TALL_FLOWER", "BUSH_FLOWER"}) =>
     Structural(voxels, layers) = Structural(lastPlant.voxels, lastPlant.layers)

\* two VINE calls have finished with different results
C9_Witness ==
  /\ PlantFinished /\ lastPlant.done /\ data.type = "VINE"
  /\ voxels # lastPlant.voxels

FixedColors ==
  {BushTrunkColor, TreeTrunkColor, FeatureStalkColor, PotColor, StemColor, FallbackCenterColor}

\* C10: when the palette has no secondary color, every voxel of a plant carries
\* a defined color: primary, foliage or one of the recipe's fixed colors (the
\* fallback '#FFFF00' among them).
C10_NoUndefinedColor ==
  (phase = "plant" /\ ~Truthy(data.colors.secondary)) =>
     \A k \in 1..Len(voxels) :
        /\ voxels[k].color # Undefined
        /\ voxels[k].color \in {data.colors.primary, data.colors.foliage} \cup FixedColors

\* a BUSH_FLOWER without secondary has finished with a flower center in the
\* fallback color
C10_Witness ==
  /\ PlantFinished /\ ~Truthy(data.colors.secondary)
  /\ data.type = "BUSH_FLOWER"
  /\ \E k \in 1..Len(voxels) : voxels[k].color = FallbackCenterColor

----------------------------------------------------------------------------
\* Properties of locomotion

\* Positions are kept to 1/60 of a world unit; lengths are compared up to
\* 1/30 of a world unit.
Tol == Unit \div 30

Lesser(a, b) == IF a <= b THEN a ELSE b
Square(a) == a * a

\* an upper bound, in whole units, of min(v * dt, distance to the target) at
\* the start of the last tick
StepBound == Lesser(last.step, ISqrt(last.dist2) + 1)

\* the last frame took the SEEKING branch
SeekingTick == last.ticked /\ last.dist2 > Square(Epsilon)

\* C3 (as stated): in every tick, corrected or not, the avatar is displaced by
\* at most min(v * dt, distance to the target at the start of the tick).
C3_DisplacementBounded ==
  last.ticked => Dist2[last.from, pos] <= Square(StepBound + Tol)

\* C3 (amended): in every tick in which no collision correction is applied,
\* the avatar is displaced by at most min(v * dt, distance to the target at the
\* start of the tick).
C3_DisplacementBoundedUncorrected ==
  (last.ticked /\ last.hits = <<>>) => Dist2[last.from, pos] <= Square(StepBound + Tol)

\* a tick without correction whose step was cut to the remaining distance
C3_Witness ==
  /\ SeekingTick
  /\ last.hits = <<>>
  /\ Overshoots(last.step, last.dist2)
  /\ pos = target

\* C4: after a SEEKING tick corrected against a single obstacle, the avatar is
\* at planar distance at least R = radius + 0.4 from that obstacle's centre;
\* and in the scenario (BUSH_FLOWER at the origin, from (-5, 0) to (5, 0) at
\* 60 frames per second) the avatar is at distance at least 1.9 at every tick.
C4_CorrectionKeepsClear ==
  /\ (SeekingTick /\ Len(last.hits) = 1) =>
       LET plant == Catalog(scene)[last.hits[1]]
       IN  Dist2[pos, PlantPos(plant)] >= Square(CollisionDist(plant.type) - Tol)
  /\ scene = "scenario" =>
       Dist2[pos, Origin] >= Square(CollisionDist("BUSH_FLOWER") - Tol)

\* a corrected tick of the scenario
C4_Witness ==
  /\ scene = "scenario"
  /\ SeekingTick
  /\ last.hits = <<1>>
  /\ last.proposed # pos

\* C5: a tick that starts within 0.1 of the target leaves the position as it
\* is and the avatar IDLE; with the target fixed this goes on tick after tick.
C5_IdleKeepsPosition ==
  [][ (last'.ticked /\ Dist2[pos, target] <= Square(Epsilon))
        => (pos' = pos /\ mode' = "IDLE" /\ Dist2[pos', target'] <= Square(Epsilon)) ]_vars

\* an IDLE tick that started near the target but not on it
C5_Witness ==
  /\ last.ticked
  /\ last.dist2 <= Square(Epsilon)
  /\ last.dist2 > 0
  /\ mode = "IDLE"
  /\ pos = last.from

\* C6: the avatar is SEEKING after a tick exactly if the tick started farther
\* than 0.1 from the target and IDLE exactly if it started within 0.1; it goes
\* from IDLE to SEEKING only when a new target farther than 0.1 has been set;
\* and in the garden it starts IDLE at the origin.
C6_TwoStates ==
  /\ [](mode \in {"IDLE", "SEEKING"})
  /\ [](last.ticked => (mode = "SEEKING" <=> last.dist2 > Square(Epsilon)))
  /\ [](last.ticked => (mode = "IDLE" <=> last.dist2 <= Square(Epsilon)))
  /\ [][ (mode = "IDLE" /\ mode' = "SEEKING")
           => (retargeted /\ Dist2[pos, target] > Square(Epsilon)) ]_vars
  /\ (scene = "garden" => (pos = Origin /\ mode = "IDLE"))

\* the avatar, IDLE in the garden after a tick, has left for a new target
C6_Witness ==
  /\ scene = "garden"
  /\ nTargets > 0
  /\ SeekingTick
  /\ mode = "SEEKING"
  /\ pos # Origin

\* C7: in the scenario the avatar comes to rest: some tick finds it within 0.1
\* of the target and leaves it IDLE.
C7_ScenarioTerminates == <>(last.ticked /\ mode = "IDLE")

----------------------------------------------------------------------------
\* Further properties of the synthesizers

\* C11: for a category outside the six enumerated ones generateVoxels returns
\* exactly the column (0, y, 0), y = 0..9, in the palette's foliage color.
C11_FallbackColumn ==
  (PlantFinished /\ data.type \notin PlantTypes) =>
     voxels = [k \in 1..10 |-> [x |-> 0, y |-> k - 1, z |-> 0, color |-> data.colors.foliage]]

\* a call for an unrecognized category, with primary # foliage, has finished
C11_Witness ==
  /\ PlantFinished
  /\ data.type = Unrecognized
  /\ data.colors.primary # data.colors.foliage
  /\ Len(voxels) = 10

----------------------------------------------------------------------------
\* Further properties of locomotion

\* the exclusion radius the specification gives for a category
ClaimedExclusion(type) ==
  CASE type = "BUSH_FLOWER" -> (19 * Unit) \div 10
    [] type = "BROAD_LEAF"  -> (16 * Unit) \div 10
    [] type = "TREE_SMALL"  -> (14 * Unit) \div 10
    [] type = "VINE"        -> (12 * Unit) \div 10
    [] OTHER                -> (12 * Unit) \div 10

\* planar (x, z) quantities
PlanarDist2(a, b) == (a.x - b.x) * (a.x - b.x) + (a.z - b.z) * (a.z - b.z)
PlanarCross(a, b) == a.x * b.z - a.z * b.x
PlanarDot(a, b) == a.x * b.x + a.z * b.z
\* an upper bound of the length of v, in whole units
LenUp(v) == ISqrt(Len2[v]) + 1

\* q lies at distance R from c, up to Tol, on the ray from c through p # c
OnRay(c, p, q, R) ==
  /\ PlanarDist2(q, c) >= Square(R - Tol)
  /\ PlanarDist2(q, c) <= Square(R + Tol)
  /\ Abs(PlanarCross(Minus[q, c], Minus[p, c])) <= Tol * LenUp(Minus[p, c])
  /\ PlanarDot(Minus[q, c], Minus[p, c]) > 0

\* the corrections of the last tick made by plants before plant k
TrailBefore(k) == {i \in 1..Len(last.trail) : last.trail[i].plant < k}
\* the running position the last tick tested plant k against
RunningAt(k) ==
  IF TrailBefore(k) = {} THEN last.proposed
  ELSE last.trail[CHOOSE i \in TrailBefore(k) : \A j \in TrailBefore(k) : j <= i].after

\* C12: every plant obstacle is kept clear by R = obstacleRadius + 0.4, with
\* obstacleRadius 1.5 for BUSH_FLOWER, 1.2 for BROAD_LEAF, 1.0 for TREE_SMALL,
\* 0.8 for VINE and 0.8 for every other category: that is the collision
\* distance of every category, a tick without correction ends at least that
\* far from every plant, and a corrected tick ends that far from the plant
\* that corrected it last.
C12_ExclusionRadius ==
  /\ \A type \in Categories : CollisionDist(type) = ClaimedExclusion(type)
  /\ SeekingTick =>
       LET cat == Catalog(scene) IN
       IF last.hits = <<>>
       THEN \A k \in 1..Len(cat) :
               PlanarDist2(pos, PlantPos(cat[k])) >= Square(ClaimedExclusion(cat[k].type))
       ELSE LET plant == cat[last.hits[Len(last.hits)]] IN
            /\ PlanarDist2(pos, PlantPos(plant)) >= Square(ClaimedExclusion(plant.type) - Tol)
            /\ PlanarDist2(pos, PlantPos(plant)) <= Square(ClaimedExclusion(plant.type) + Tol)

\* a tick has been corrected by a VINE and then by a BUSH_FLOWER
C12_Witness ==
  /\ SeekingTick
  /\ Len(last.hits) = 2
  /\ Catalog(scene)[last.hits[1]].type = "VINE"
  /\ Catalog(scene)[last.hits[2]].type = "BUSH_FLOWER"

\* C17: in a SEEKING tick each obstacle is tested with the planar distance
\* between the running position and its center: exactly when that distance
\* is strictly less than R the position is replaced by
\* center + normalize(position - center) * R, otherwise the obstacle leaves
\* it as it is.
C17_CollisionTest ==
  SeekingTick =>
    /\ pos.y = 0
    /\ \A k \in 1..Len(Catalog(scene)) :
         LET c == PlantPos(Catalog(scene)[k])
             R == CollisionDist(Catalog(scene)[k].type)
             run == RunningAt(k)
             made == {i \in 1..Len(last.trail) : last.trail[i].plant = k}
         IN  IF PlanarDist2(run, c) < R * R
             THEN /\ made # {}
                  /\ \A i \in made :
                       /\ last.trail[i].before = run
                       /\ run # c => OnRay(c, run, last.trail[i].after, R)
             ELSE made = {}

\* a tick has tested a position exactly on the perimeter of a plant, and left
\* it there
C17_Witness ==
  /\ SeekingTick
  /\ last.hits = <<>>
  /\ \E k \in 1..Len(Catalog(scene)) :
        PlanarDist2(last.proposed, PlantPos(Catalog(scene)[k]))
          = Square(CollisionDist(Catalog(scene)[k].type))
  /\ pos = last.proposed

\* C18: when the running position is exactly the obstacle's center the
\* correction puts it at center + (R, 0, 0).
C18_ZeroNormalFallback ==
  SeekingTick =>
    \A i \in 1..Len(last.trail) :
      LET plant == Catalog(scene)[last.trail[i].plant]
          c == PlantPos(plant)
      IN  last.trail[i].before = c =>
            last.trail[i].after = [x |-> c.x + ClaimedExclusion(plant.type), y |-> 0, z |-> c.z]

\* a tick has proposed the center of a plant
C18_Witness ==
  /\ SeekingTick
  /\ Len(last.trail) > 0
  /\ last.trail[1].before = PlantPos(Catalog(scene)[last.trail[1].plant])
  /\ pos # last.proposed

\* C19: the corrections of one tick are one pass over the obstacles in catalog
\* order: each obstacle is tested once, against the position as corrected by
\* the obstacles before it, and the position left by the last correction is
\* committed without testing earlier obstacles again.
C19_SinglePass ==
  SeekingTick =>
    LET cat == Catalog(scene)
        n == Len(last.trail)
    IN  /\ Len(last.hits) = n
        /\ \A i \in 1..n : last.trail[i].plant = last.hits[i]
        /\ \A i \in 1..(n - 1) : last.hits[i] < last.hits[i + 1]
        /\ n > 0 => last.trail[1].before = last.proposed
        /\ \A i \in 1..(n - 1) : last.trail[i + 1].before = last.trail[i].after
        /\ pos = IF n = 0 THEN last.proposed ELSE last.trail[n].after
        /\ \A k \in 1..Len(cat) :
             (\A i \in 1..n : last.hits[i] # k) =>
                PlanarDist2(RunningAt(k), PlantPos(cat[k])) >= Square(CollisionDist(cat[k].type))

\* two plants with overlapping zones have corrected a tick, and the committed
\* position is closer than R to the first of them
C19_Witness ==
  /\ SeekingTick
  /\ Len(last.hits) = 2
  /\ LET first == Catalog(scene)[last.hits[1]]
     IN  PlanarDist2(pos, PlantPos(first)) < Square(CollisionDist(first.type) - Tol)

\* C20: in a SEEKING tick the proposed position is
\* current + unitDirection * min(v * dt, remaining distance): it lies on the
\* segment from the current position to the target, at that distance from the
\* current position, never past the target, and it is the target itself when
\* v * dt >= remaining distance.
C20_ProposedStep ==
  SeekingTick =>
    LET e == Minus[last.proposed, last.from]
        d == Minus[target, last.from]
    IN  /\ Abs(PlanarCross(e, d)) <= Tol * LenUp(d)
        /\ PlanarDot(e, d) > 0
        /\ e.y = 0
        /\ Len2[e] <= Square(StepBound + Tol)
        /\ Len2[e] >= Square(Lesser(last.step, ISqrt(last.dist2)) - Tol)
        /\ ISqrt(Len2[e]) <= ISqrt(last.dist2)
        /\ Square(last.step) >= last.dist2 => last.proposed = target

\* a tick whose step was exactly the remaining distance
C20_Witness ==
  /\ SeekingTick
  /\ last.proposed = target
  /\ Square(last.step) = last.dist2

----------------------------------------------------------------------------
\* Properties of the description panel (checked under SpecUI)

\* the plants within the interaction radius of the avatar
InRange == {k \in 1..Len(Catalog(scene)) :
              Dist2[PlantPos3(Catalog(scene)[k]), pos] < Square(4 * Unit)}

\* the plant shown is a nearest plant within the interaction radius, none
\* when there is no plant within it
ShowsNearest ==
  IF InRange = {} THEN activePlant = Null
  ELSE \E k \in InRange :
          /\ activePlant = Catalog(scene)[k].id
          /\ \A j \in 1..Len(Catalog(scene)) :
                Dist2[PlantPos3(Catalog(scene)[j]), pos] >= Dist2[PlantPos3(Catalog(scene)[k]), pos]

----------------------------------------------------------------------------
\* Properties of retargeting

----------------------------------------------------------------------------
\* Properties of the memoization (checked under SpecRender)

\* C16: a plant's voxel set is generated once for its data object and the
\* avatar's once: while data keeps its identity no render, whatever caused it
\* (a tick, a new target, a hover, the weather), starts generateVoxels or
\* changes the stored set, and once the avatar's set exists nothing starts
\* generateCharacterVoxels or changes it.
C16_GeneratedOnce ==
  /\ [][ (lastPlant.done /\ phase = "idle" /\ memoDeps = dataRef /\ dataRef' = dataRef)
           => (phase' # "plant" /\ lastPlant' = lastPlant) ]_vars
  /\ [][ lastChar.done => (lastChar' = lastChar /\ (phase # "char" => phase' # "char")) ]_vars

\* both sets exist, each generated once, and a change of the weather has
\* caused a render
C16_Witness ==
  /\ lastPlant.done
  /\ lastChar.done
  /\ phase = "idle"
  /\ dataRef = 0
  /\ nCalls = 2
  /\ cause = "weather"

----------------------------------------------------------------------------
\* Properties of the ornament layers (checked under SpecSynth)

\* the add calls of the running recipe issued by its ornament layer
OrnamentCalls == SelectSeq(calls, LAMBDA c : c.layer = "O")

\* the color of the entry of vs at a cell
ColorAt(vs, x, y, z) ==
  vs[CHOOSE k \in 1..Len(vs) : vs[k].x = x /\ vs[k].y = y /\ vs[k].z = z].color

\* the color of the first add the running recipe issues for the cell of call c
FirstWritten(c) ==
  calls[CHOOSE k \in 1..Len(calls) :
          /\ SameCell(calls[k], c)
          /\ \A j \in 1..(k - 1) : ~SameCell(calls[j], c)].color

\* the cell (x, y, z) is in vs with the given color
Has(vs, x, y, z, color) ==
  \E k \in 1..Len(vs) : vs[k] = [x |-> x, y |-> y, z |-> z, color |-> color]

\* the add calls of one flower motif of BUSH_FLOWER: 5, and a sixth when the
\* palette has a secondary color
MotifSize == IF Truthy(data.colors.secondary) THEN 6 ELSE 5
NumMotifs == Len(OrnamentCalls) \div MotifSize
Motif(j) == SubSeq(OrnamentCalls, (j - 1) * MotifSize + 1, j * MotifSize)

\* m is a center, the four cells around it in the plane z = center.z in the
\* primary color, and the cell in front of it in the secondary color when
\* there is one
IsMotif(m) ==
  LET c == m[1] IN
  /\ {<<m[k].x, m[k].y, m[k].z>> : k \in 2..5}
        = {<<c.x + 1, c.y, c.z>>, <<c.x - 1, c.y, c.z>>, <<c.x, c.y + 1, c.z>>, <<c.x, c.y - 1, c.z>>}
  /\ \A k \in 2..5 : m[k].color = data.colors.primary
  /\ Truthy(data.colors.secondary) =>
       /\ <<m[6].x, m[6].y, m[6].z>> = <<c.x, c.y, c.z + 1>>
       /\ m[6].color = data.colors.secondary

BushFinished == PlantFinished /\ data.type = "BUSH_FLOWER"

\* the petal cross of motif m is in vs, in the primary color
CrossShown(vs, m) == \A k \in 2..5 : Has(vs, m[k].x, m[k].y, m[k].z, data.colors.primary)

\* C22 (as stated): every BUSH_FLOWER result carries 8 flower motifs, each with
\* its 4-cell petal cross in the primary color around its center and, when the
\* palette has a secondary color, its accent cell, whatever the random source
\* yields.
C22_EightMotifs ==
  BushFinished =>
    /\ Len(OrnamentCalls) = 8 * MotifSize
    /\ \A j \in 1..8 :
         /\ IsMotif(Motif(j))
         /\ CrossShown(voxels, Motif(j))
         /\ Truthy(data.colors.secondary) =>
              Has(voxels, Motif(j)[6].x, Motif(j)[6].y, Motif(j)[6].z, data.colors.secondary)

\* C22 (amended): a BUSH_FLOWER recipe issues at most 8 flower motifs, one for
\* each of its 8 sampled points whose height is above 2; each motif writes a
\* center, a 4-cell petal cross in the primary color and, when the palette has
\* a secondary color, an accent cell; and each of these cells is in the result
\* with the color of the first write to it, which is the motif's color only
\* when neither the mass, the trunk nor an earlier motif wrote the cell.
C22_AtMostEightMotifsFirstWriterWins ==
  BushFinished =>
    /\ Len(OrnamentCalls) = NumMotifs * MotifSize
    /\ NumMotifs <= 8
    /\ \A j \in 1..NumMotifs :
         /\ IsMotif(Motif(j))
         /\ Motif(j)[1].y > 2
         /\ \A k \in 1..MotifSize :
              LET c == Motif(j)[k] IN
              /\ Occupied(voxels, c.x, c.y, c.z)
              /\ ColorAt(voxels, c.x, c.y, c.z) = FirstWritten(c)

\* a BUSH_FLOWER has finished with fewer than 8 motifs, one of them with a
\* petal cell that an earlier write had taken, and with a petal cell shown in
\* the primary color
C22_Witness ==
  /\ BushFinished
  /\ NumMotifs > 0
  /\ NumMotifs < 8
  /\ \E j \in 1..NumMotifs : ~CrossShown(voxels, Motif(j))
  /\ \E j \in 1..NumMotifs : \E k \in 2..5 :
        Has(voxels, Motif(j)[k].x, Motif(j)[k].y, Motif(j)[k].z, data.colors.primary)

\* the result holds the cell (x, y, z) in the given color, emitted by the
\* ornament layer
Accent(x, y, z, color) ==
  \E k \in 1..Len(voxels) :
     voxels[k] = [x |-> x, y |-> y, z |-> z, color |-> color] /\ layers[k] = "O"

\* the tip of branch idx: the cell above the center of its canopy and the
\* cell beside it both hold a primary-colored accent
TipPair(idx) ==
  LET bx == Branches[idx + 1][1]
      bz == Branches[idx + 1][2]
  IN  /\ Accent(bx, 11 + (idx % 2), bz, data.colors.primary)
      /\ Accent(bx + 1, 11 + (idx % 2), bz, data.colors.primary)

TreeFinished == PlantFinished /\ data.type = "TREE_SMALL"

\* C23: every TREE_SMALL result has the trunk cells (0, y, 0), y = 0..7, and
\* at each of its 5 branch ends the 13 cells of the diamond |lx| + |lz| < 3;
\* exactly 2 of the 5 branch tips carry a pair of primary-colored accent
\* cells.
C23_TwoTipPairs ==
  TreeFinished =>
    /\ \A y \in 0..7 : Has(voxels, 0, y, 0, TreeTrunkColor)
    /\ \A idx \in 0..4 : \A lx, lz \in -2..2 :
         Abs(lx) + Abs(lz) < 3 =>
           Occupied(voxels, Branches[idx + 1][1] + lx, 10 + (idx % 2), Branches[idx + 1][2] + lz)
    /\ Cardinality({idx \in 0..4 : TipPair(idx)}) = 2

\* a TREE_SMALL has finished; at its first tip the branch line had taken the
\* first cell of the pair, so that only the second accent is there
C23_Witness ==
  /\ TreeFinished
  /\ data.colors.primary # data.colors.foliage
  /\ Has(voxels, 2, 11, 0, TreeTrunkColor)
  /\ Accent(3, 11, 0, data.colors.primary)
  /\ TipPair(1)
  /\ TipPair(3)

BroadFinished == PlantFinished /\ data.type = "BROAD_LEAF"

\* C24: for BROAD_LEAF the feature stalk and the 3x3 ornament block are
\* emitted exactly when primary differs from foliage: with primary = foliage
\* every voxel of the result has the foliage color and none comes from the
\* ornament layer; with primary # foliage the result holds the 9 cells
\* (x, y, 2), x in -1..1, y in 11..13, in the primary color, and the stalk
\* cells (0, y, 1), y in 0..11, the top one in the stalk's own color.
C24_FeatureIffPrimaryDiffers ==
  BroadFinished =>
    IF data.colors.primary = data.colors.foliage
    THEN /\ \A k \in 1..Len(voxels) : voxels[k].color = data.colors.foliage
         /\ \A k \in 1..Len(layers) : layers[k] # "O"
    ELSE /\ \A x \in -1..1 : \A y \in 11..13 : Accent(x, y, 2, data.colors.primary)
         /\ \A y \in 0..11 : Occupied(voxels, 0, y, 1)
         /\ Accent(0, 11, 1, FeatureStalkColor)

\* a BROAD_LEAF whose primary color is its foliage color has finished, after
\* a call for the same palette
C24_Witness ==
  /\ BroadFinished
  /\ data.colors.primary = data.colors.foliage
  /\ Len(voxels) > 9
  /\ lastPlant.done

VineFinished == PlantFinished /\ data.type = "VINE"

\* the recipe issues the accent cluster of height y: three adds in the
\* primary color beside the vine
AccentAt(y) ==
  LET vx == VineX[y + 1]
      vz == VineZ[y + 1]
  IN  \E k \in 1..(Len(calls) - 2) :
        /\ calls[k] = Call(vx + 1, y, vz, data.colors.primary, "O")
        /\ calls[k + 1] = Call(vx + 1, y - 1, vz, data.colors.primary, "O")
        /\ calls[k + 2] = Call(vx + 2, y, vz, data.colors.primary, "O")

\* C25 (as stated): for VINE an accent cluster is emitted at every height y in
\* 0..17 with y mod 3 = 0 and y >= 3, and at no other height.
C25_AccentFromThree ==
  VineFinished => \A y \in 0..(VineHeight - 1) : AccentAt(y) <=> (y % 3 = 0 /\ y >= 3)

\* C25 (amended): for VINE an accent cluster is emitted at every height y in
\* 0..17 with y mod 3 = 0 and y > 3, that is at 6, 9, 12 and 15, and at no
\* other height: neither at 0 nor at 3.  Each cell of a cluster is in the
\* result, with the color of the first write to it.
C25_AccentAboveThree ==
  VineFinished =>
    /\ \A y \in 0..(VineHeight - 1) : AccentAt(y) <=> y \in {6, 9, 12, 15}
    /\ Len(OrnamentCalls) = 4 * (IF Truthy(data.colors.secondary) THEN 4 ELSE 3)
    /\ \A k \in 1..Len(OrnamentCalls) :
         LET c == OrnamentCalls[k] IN
         /\ Occupied(voxels, c.x, c.y, c.z)
         /\ ColorAt(voxels, c.x, c.y, c.z) = FirstWritten(c)

\* a VINE has finished without a cluster at height 3 and with the one at
\* height 6, whose outer cell shows the primary color
C25_Witness ==
  /\ VineFinished
  /\ ~AccentAt(3)
  /\ AccentAt(6)
  /\ Accent(VineX[7] + 2, 6, VineZ[7], data.colors.primary)

OrchidFinished == PlantFinished /\ data.type = "ORCHID"

\* the adds of the stem loop, one per step
StemCalls == SelectSeq(calls, LAMBDA c : c.layer = "S" /\ c.color = StemColor)
\* where the stem is after i steps; before the first step it is at (0, 1)
StemX(i) == IF i = 0 THEN 0 ELSE StemCalls[i].x
StemY(i) == IF i = 0 THEN 1 ELSE StemCalls[i].y

\* C26: the ORCHID stem has 15 steps in three phases: in each of the first 5
\* it only rises, in each of the next 5 it moves laterally, and in each of
\* the last 5 its height decreases.
C26_ThreePhases ==
  OrchidFinished =>
    /\ Len(StemCalls) = StemSteps
    /\ \A i \in 1..5 : StemX(i) = StemX(i - 1) /\ StemY(i) > StemY(i - 1)
    /\ \A i \in 6..10 : StemX(i) # StemX(i - 1)
    /\ \A i \in 11..15 : StemY(i) < StemY(i - 1)

----------------------------------------------------------------------------
\* Properties of the bobbing offset

\* C21: the bobbing offset goes to the visual body only: an IDLE tick sets it
\* to zero, a SEEKING tick to a value in [0, 0.15], and neither the committed
\* position (which stays on the floor, where the step and the corrections put
\* it) nor the position reported to the proximity logic includes it.
C21_BobVisualOnly ==
  /\ [](last.ticked =>
          /\ mode = "IDLE" => bob = 0
          /\ mode = "SEEKING" => (0 <= bob /\ bob <= BobMax)
          /\ pos.y = 0
          /\ pos = (IF last.trail = <<>> THEN last.proposed
                    ELSE last.trail[Len(last.trail)].after)
          /\ last.reported = pos
          /\ activePlant = ProximityEffect(Catalog(scene), pos, hoveredId))
  /\ [][ last'.ticked =>
           \E dt \in Deltas(scene) : pos' = TickResult(Catalog(scene), pos, target, dt).pos ]_vars

\* a SEEKING tick that set the offset to its maximum
C21_Witness ==
  /\ SeekingTick
  /\ mode = "SEEKING"
  /\ bob = BobMax
  /\ pos.y = 0
  /\ last.reported = pos

----------------------------------------------------------------------------
\* Properties of whole walks

\* the exclusion zones of the catalog are pairwise disjoint and none of them
\* contains the origin
ZonesDisjoint(cat) ==
  /\ \A i, j \in 1..Len(cat) :
       i < j => PlanarDist2(PlantPos(cat[i]), PlantPos(cat[j]))
                  >= Square(CollisionDist(cat[i].type) + CollisionDist(cat[j].type))
  /\ \A i \in 1..Len(cat) :
       PlanarDist2(Origin, PlantPos(cat[i])) >= Square(CollisionDist(cat[i].type))

\* C27: the exclusion zones of the shipped catalog are pairwise disjoint and
\* do not contain the origin, and in the garden, after any ticks and target
\* changes, the committed position is at planar distance at least R - 1/30
\* from the center of every plant.
C27_GardenKeepsClear ==
  /\ ZonesDisjoint(GardenData)
  /\ scene = "garden" =>
       \A k \in 1..Len(GardenData) :
          PlanarDist2(pos, PlantPos(GardenData[k]))
            >= Square(CollisionDist(GardenData[k].type) - Tol)

\* in the garden, after two target changes, a tick has been corrected and has
\* committed a position on the perimeter of the plant
C27_Witness ==
  /\ scene = "garden"
  /\ nTargets = 2
  /\ SeekingTick
  /\ Len(last.hits) = 1
  /\ pos # last.proposed
  /\ PlanarDist2(pos, PlantPos(GardenData[last.hits[1]]))
       <= Square(CollisionDist(GardenData[last.hits[1]].type) + Tol)

\* C28: with the target fixed, from every start, some tick finds the avatar
\* within 0.1 of the target and leaves it IDLE; also when the target is inside
\* the exclusion zone of the plant or behind the plant on the line of travel.
C28_EveryTargetReached ==
  <>(last.ticked /\ mode = "IDLE" /\ Dist2[pos, target] <= Square(Epsilon))

\* no tick of the walk is corrected
ClearWalk == [](last.ticked => last.hits = <<>>)

\* the distance to the target, in whole units, before and after the last tick
DistBefore == ISqrt(last.dist2)
DistAfter == ISqrt(Dist2[pos, target])

\* C29: on a walk to a fixed target without correction every SEEKING tick
\* lowers the distance to the target by min(v * dt, remaining distance), up to
\* 1/30, the distance never grows, and after finitely many ticks the avatar
\* is IDLE and stays IDLE.
C29_ClearWalkProgress ==
  /\ []((SeekingTick /\ last.hits = <<>>) =>
          /\ Abs(DistBefore - DistAfter - Lesser(last.step, DistBefore)) <= Tol
          /\ Dist2[pos, target] <= last.dist2)
  /\ ClearWalk => <>[](last.ticked /\ mode = "IDLE")

\* a walk to (-3, 0), which no start needs a correction for, has ended: the
\* avatar is IDLE on the target
C29_Witness ==
  /\ scene = "fixed"
  /\ target = [x |-> -3 * Unit, y |-> 0, z |-> 0]
  /\ last.ticked
  /\ last.hits = <<>>
  /\ mode = "IDLE"
  /\ pos = target

----------------------------------------------------------------------------
\* Properties of the hover events (checked under SpecUI)

\* C30: after any interleaving of pointer-over and pointer-out events,
\* hoveredId is the id of a plant the pointer is over, and it is null only
\* when the pointer is over no plant.
C30_HoveredIsUnderPointer ==
  /\ hoveredId = Null <=> pointerOn = {}
  /\ hoveredId # Null => \E k \in pointerOn : hoveredId = Catalog(scene)[k].id

============================================================================
